---- MODULE Spec2Model ----
(***************************************************************************)
(* Model of the tax engine of assessment-tax (package tax, src/tax/tax.go) *)
(* and of the HTTP handlers that call it (package handler).                *)
(* Spec is the engine alone, SpecHandlers the handlers with each request   *)
(* served in one step, SpecInterleaved the tax handlers one statement at a *)
(* time with admin updates in between.                                     *)
(*                                                                         *)
(* Amounts (income, withholding, allowances, bracket upper bounds) are     *)
(* whole units.  Rate.Percentage is a fraction in the source; here it is a *)
(* whole number of hundredths, so every amount that is the product of an   *)
(* amount and a percentage (a statement's Tax, the summary's Tax and       *)
(* Refund) is carried in hundredths of a unit: the withholding is scaled   *)
(* by Scale wherever the source compares or subtracts it from a tax.       *)
(* float64 rounding is not modelled: arithmetic is exact.                  *)
(***************************************************************************)
EXTENDS Integers, Sequences, FiniteSets, TLC

VARIABLES income, wht, allowances, taxConf, summary, totalAllowance,
          db, req, resp, calls, proc, history

\* the engine: the fields of a Tax value, the summary it returned last and
\* the total allowance computed for it
evars == <<income, wht, allowances, taxConf, summary, totalAllowance>>

\* the handlers: the database tables, the request served last, its response
\* and the database methods it invoked, in order
hvars == <<db, req, resp, calls>>

\* a handler execution taken one statement at a time: its position and
\* local variables, and the database states that have existed so far
cvars == <<proc, history>>

vars == <<income, wht, allowances, taxConf, summary, totalAllowance,
          db, req, resp, calls, proc, history>>

\* ------------------------------------------------------------------ bounds
MaxIncome == 7
MaxWht == 1
MaxAmount == 2

\* hundredths per unit: the denominator of Rate.Percentage
Scale == 100

\* the sentinel upper bound of the unbounded bracket
Unbounded == -1

Incomes == 0..MaxIncome
Whts == 0..MaxWht
\* AddAllowance is called with a positive amount
Amounts == 1..MaxAmount

AllowanceTypes == {"personal", "donation", "k-receipt", "something"}

\* ------------------------------------------------------------ data types
Rate(p, m, l) == [Percentage |-> p, Max |-> m, Label |-> l]

EmptyAllowances == [t \in {} |-> 0]

TaxConfig(r, allowed, default) ==
    [Rates |-> r, AllowedAllowances |-> allowed, DefaultAllowances |-> default]

\* the value the summary variable holds when the latest call was not
\* CalculateTaxSummary
NoSummary == [TaxStatements |-> <<>>, Tax |-> -1, Refund |-> -1]

\* the zero value of the local totalAllowance
NoTotal == 0

\* ------------------------------------------------------- configurations
\* the shape of the handler's table: 0% first, rising rates, unbounded last
RatesStandard ==
    << Rate(0, 1, "0-1"), Rate(10, 3, "1-3"), Rate(15, 5, "3-5"),
       Rate(35, Unbounded, "5+") >>

RatesThree == << Rate(0, 2, "0-2"), Rate(50, 4, "2-4"), Rate(100, Unbounded, "4+") >>

RatesTwo == << Rate(0, 2, "0-2"), Rate(50, Unbounded, "2+") >>

RatesFlat == << Rate(10, Unbounded, "0+") >>

\* malformed tables the engine accepts without validation
RatesSentinelFirst == << Rate(10, Unbounded, "0+"), Rate(50, 3, "0-3") >>

RatesUnsorted == << Rate(10, 3, "0-3"), Rate(50, 1, "0-1"), Rate(100, Unbounded, "3+") >>

RatesNoUnbounded == << Rate(10, 2, "0-2"), Rate(50, 4, "2-4") >>

RatesSentinelMiddle ==
    << Rate(0, 1, "0-1"), Rate(10, Unbounded, "1+"), Rate(50, 3, "1-3") >>

\* a well-formed table at the top of the percentage range
RatesSteep ==
    << Rate(100, 3, "0-3"), Rate(100, 4, "3-4"), Rate(100, Unbounded, "4+") >>

RateTables ==
    { RatesStandard, RatesThree, RatesTwo, RatesFlat, RatesSteep,
      RatesSentinelFirst, RatesUnsorted, RatesNoUnbounded, RatesSentinelMiddle }

AllowanceTables ==
    { [default |-> ("personal" :> 1),
       allowed |-> ("donation" :> 2) @@ ("k-receipt" :> 1)],
      [default |-> ("personal" :> 1) @@ ("donation" :> 1),
       allowed |-> ("donation" :> 2) @@ ("k-receipt" :> 1)],
      [default |-> EmptyAllowances,
       allowed |-> ("donation" :> 1)] }

WellFormedTables == { RatesStandard, RatesThree, RatesTwo, RatesFlat, RatesSteep }

\* every well-formed table with every allowance configuration, the
\* malformed ones with the configuration that has no default allowance
TaxConfigs ==
    { TaxConfig(r, a.allowed, a.default) : r \in WellFormedTables, a \in AllowanceTables }
    \cup { TaxConfig(r, "donation" :> 1, EmptyAllowances) : r \in RateTables }

\* ---------------------------------------------------------------- helpers
RECURSIVE SumAmounts(_, _)
SumAmounts(m, keys) ==
    IF keys = {} THEN 0
    ELSE LET k == CHOOSE x \in keys : TRUE
         IN  m[k] + SumAmounts(m, keys \ {k})

\* allowanceContribution without the clamp to the maximum amount
allowanceContribution_noClamp(conf, allowanceType, allowanceAmount) ==
    IF allowanceType \in DOMAIN conf.DefaultAllowances THEN 0
    ELSE IF allowanceType \notin DOMAIN conf.AllowedAllowances THEN 0
    ELSE allowanceAmount

\* allowanceContribution that counts a type missing from the allowed table
allowanceContribution_noAllowedCheck(conf, allowanceType, allowanceAmount) ==
    IF allowanceType \in DOMAIN conf.DefaultAllowances THEN 0
    ELSE IF allowanceType \notin DOMAIN conf.AllowedAllowances THEN allowanceAmount
    ELSE LET maxAmount == conf.AllowedAllowances[allowanceType]
         IN  IF allowanceAmount > maxAmount THEN maxAmount ELSE allowanceAmount

\* allowanceContribution without the check against the default allowances
allowanceContribution_noDefaultSkip(conf, allowanceType, allowanceAmount) ==
    IF allowanceType \notin DOMAIN conf.AllowedAllowances THEN 0
    ELSE LET maxAmount == conf.AllowedAllowances[allowanceType]
         IN  IF allowanceAmount > maxAmount THEN maxAmount ELSE allowanceAmount

\* body of the second loop of calculateTotalAllowance: what one submitted
\* allowance adds to the total
allowanceContribution(conf, allowanceType, allowanceAmount) ==
    IF allowanceType \in DOMAIN conf.DefaultAllowances THEN 0
    ELSE IF allowanceType \notin DOMAIN conf.AllowedAllowances THEN 0
    ELSE LET maxAmount == conf.AllowedAllowances[allowanceType]
         IN  IF allowanceAmount > maxAmount THEN maxAmount ELSE allowanceAmount

RECURSIVE SumContributions(_, _, _)
SumContributions(conf, allow, keys) ==
    IF keys = {} THEN 0
    ELSE LET k == CHOOSE x \in keys : TRUE
         IN  allowanceContribution(conf, k, allow[k])
             + SumContributions(conf, allow, keys \ {k})

calculateTotalAllowance(conf, allow) ==
    SumAmounts(conf.DefaultAllowances, DOMAIN conf.DefaultAllowances)
    + SumContributions(conf, allow, DOMAIN allow)

\* rateStep that compares the upper bound with the running remainder
rateStep_compareRemain(rate, netIncome, remain) ==
    IF remain <= 0 THEN [Tax |-> 0, remain |-> remain]
    ELSE IF remain <= rate.Max \/ rate.Max = Unbounded
         THEN [Tax |-> remain * rate.Percentage, remain |-> 0]
         ELSE [Tax |-> rate.Max * rate.Percentage, remain |-> remain - rate.Max]

\* rateStep without the test for the sentinel upper bound
rateStep_noSentinel(rate, netIncome, remain) ==
    IF remain <= 0 THEN [Tax |-> 0, remain |-> remain]
    ELSE IF netIncome <= rate.Max
         THEN [Tax |-> remain * rate.Percentage, remain |-> 0]
         ELSE [Tax |-> rate.Max * rate.Percentage, remain |-> remain - rate.Max]

\* rateStep that taxes nothing in a bracket the net income extends beyond
rateStep_terminalOnly(rate, netIncome, remain) ==
    IF remain <= 0 THEN [Tax |-> 0, remain |-> remain]
    ELSE IF netIncome <= rate.Max \/ rate.Max = Unbounded
         THEN [Tax |-> remain * rate.Percentage, remain |-> 0]
         ELSE [Tax |-> 0, remain |-> remain - rate.Max]

\* body of the loop of calculateTaxStatement: the tax of one bracket and the
\* remainder carried to the next one
rateStep(rate, netIncome, remain) ==
    IF remain <= 0 THEN [Tax |-> 0, remain |-> remain]
    ELSE IF netIncome <= rate.Max \/ rate.Max = Unbounded
         THEN [Tax |-> remain * rate.Percentage, remain |-> 0]
         ELSE [Tax |-> rate.Max * rate.Percentage, remain |-> remain - rate.Max]

RECURSIVE walkRates(_, _, _, _, _)
walkRates(rates, i, netIncome, remain, ts) ==
    IF i > Len(rates) THEN ts
    ELSE LET s == rateStep(rates[i], netIncome, remain)
         IN  walkRates(rates, i + 1, netIncome, s.remain,
                       Append(ts, [Rate |-> rates[i], Tax |-> s.Tax]))

calculateTaxStatement(conf, netIncome) ==
    walkRates(conf.Rates, 1, netIncome, netIncome, <<>>)

RECURSIVE SumTax(_)
SumTax(ts) == IF ts = <<>> THEN 0 ELSE Head(ts).Tax + SumTax(Tail(ts))

\* reconcile that keeps the computed tax when a refund is due
reconcile_keepTax(statements, tax, w) ==
    IF tax <= w * Scale
    THEN [TaxStatements |-> statements, Tax |-> tax, Refund |-> w * Scale - tax]
    ELSE [TaxStatements |-> statements, Tax |-> tax - w * Scale, Refund |-> 0]

\* reconcile that does not deduct the withholding from a payable tax
reconcile_noDeduction(statements, tax, w) ==
    IF tax <= w * Scale
    THEN [TaxStatements |-> statements, Tax |-> 0, Refund |-> w * Scale - tax]
    ELSE [TaxStatements |-> statements, Tax |-> tax, Refund |-> 0]

\* reconcile that reports the withholding as refund also when tax is payable
reconcile_refundAlways(statements, tax, w) ==
    IF tax <= w * Scale
    THEN [TaxStatements |-> statements, Tax |-> 0, Refund |-> w * Scale - tax]
    ELSE [TaxStatements |-> statements, Tax |-> tax - w * Scale, Refund |-> w * Scale]

\* reconcile that always reports the difference as payable tax
reconcile_noBranch(statements, tax, w) ==
    [TaxStatements |-> statements, Tax |-> tax - w * Scale, Refund |-> 0]

\* the reconciliation of the computed tax against the withholding
reconcile(statements, tax, w) ==
    IF tax <= w * Scale
    THEN [TaxStatements |-> statements, Tax |-> 0, Refund |-> w * Scale - tax]
    ELSE [TaxStatements |-> statements, Tax |-> tax - w * Scale, Refund |-> 0]

\* the early return without the refund of the withholding
noNetIncome_noRefund(w) == [TaxStatements |-> <<>>, Tax |-> 0, Refund |-> 0]

\* the early return of CalculateTaxSummary when nothing is taxable
noNetIncome(w) == [TaxStatements |-> <<>>, Tax |-> 0, Refund |-> w * Scale]

TaxSummaryOf(inc, w, allow, conf) ==
    LET netIncome == inc - calculateTotalAllowance(conf, allow)
    IN  IF netIncome <= 0 THEN noNetIncome(w)
        ELSE LET statements == calculateTaxStatement(conf, netIncome)
             IN  reconcile(statements, SumTax(statements), w)

\* AddAllowance that adds the amount to the one already stored
addAllowance_sum(allow, allowanceType, amount) ==
    IF allowanceType \in DOMAIN allow
    THEN [allow EXCEPT ![allowanceType] = @ + amount]
    ELSE (allowanceType :> amount) @@ allow

\* the map assignment of AddAllowance
addAllowance(allow, allowanceType, amount) ==
    (allowanceType :> amount) @@ allow

\* ------------------------------------------------------- handler data
\* default_allowances and allowed_allowances as seeded by the migration
SeedDB ==
    [default |-> ("personal" :> 60000),
     allowed |-> ("donation" :> 100000) @@ ("k-receipt" :> 50000)]

NoBody == <<>>

NoRequest == [kind |-> "none"]

NoResponse == [status |-> 0, message |-> "", body |-> NoBody]

\* no handler execution is in progress
NoProc ==
    [pc |-> "idle", defaultMap |-> EmptyAllowances, allowedMap |-> EmptyAllowances,
     datasets |-> <<>>, taxes |-> <<>>, confs |-> <<>>, adminResp |-> NoResponse]

\* ------------------------------------------------------------ operations
\* NewTax: an engine over one configuration, nothing set yet
Init ==
    /\ db = SeedDB
    /\ req = NoRequest
    /\ resp = NoResponse
    /\ calls = <<>>
    /\ proc = NoProc
    /\ history = {SeedDB}
    /\ taxConf \in TaxConfigs
    /\ income = 0
    /\ wht = 0
    /\ allowances = EmptyAllowances
    /\ summary = NoSummary
    /\ totalAllowance = NoTotal

SetIncome ==
    \E v \in Incomes :
        /\ income' = v
        /\ summary' = NoSummary
        /\ totalAllowance' = NoTotal
        /\ UNCHANGED <<wht, allowances, taxConf>>
        /\ UNCHANGED hvars
        /\ UNCHANGED cvars

SetWht ==
    \E v \in Whts :
        /\ wht' = v
        /\ summary' = NoSummary
        /\ totalAllowance' = NoTotal
        /\ UNCHANGED <<income, allowances, taxConf>>
        /\ UNCHANGED hvars
        /\ UNCHANGED cvars

AddAllowance ==
    \E allowanceType \in AllowanceTypes, amount \in Amounts :
        /\ allowances' = addAllowance(allowances, allowanceType, amount)
        /\ summary' = NoSummary
        /\ totalAllowance' = NoTotal
        /\ UNCHANGED <<income, wht, taxConf>>
        /\ UNCHANGED hvars
        /\ UNCHANGED cvars

\* CalculateTaxSummary that stores the clamped amounts back into the map
CalculateTaxSummary_writesBack ==
    /\ summary' = TaxSummaryOf(income, wht, allowances, taxConf)
    /\ totalAllowance' = calculateTotalAllowance(taxConf, allowances)
    /\ allowances' = [t \in DOMAIN allowances |->
                          allowanceContribution(taxConf, t, allowances[t])]
    /\ UNCHANGED <<income, wht, taxConf>>
    /\ UNCHANGED hvars
    /\ UNCHANGED cvars

CalculateTaxSummary ==
    /\ summary' = TaxSummaryOf(income, wht, allowances, taxConf)
    /\ totalAllowance' = calculateTotalAllowance(taxConf, allowances)
    /\ UNCHANGED <<income, wht, allowances, taxConf>>
    /\ UNCHANGED hvars
    /\ UNCHANGED cvars

Next == SetIncome \/ SetWht \/ AddAllowance \/ CalculateTaxSummary

Spec == Init /\ [][Next]_vars

TypeOK ==
    /\ income \in Incomes
    /\ wht \in Whts
    /\ DOMAIN allowances \subseteq AllowanceTypes
    /\ taxConf \in TaxConfigs

\* ------------------------------------------------------------ properties
Computed == summary # NoSummary

\* the net income of the latest CalculateTaxSummary call
NetIncome == income - totalAllowance

Min(a, b) == IF a <= b THEN a ELSE b

\* ascending positive upper bounds, exactly one unbounded bracket, last
WellFormed(rates) ==
    /\ Len(rates) >= 1
    /\ rates[Len(rates)].Max = Unbounded
    /\ \A i \in 1..(Len(rates) - 1) : rates[i].Max > 0
    /\ \A i \in 1..(Len(rates) - 2) : rates[i].Max < rates[i + 1].Max

PrevBound(rates, i) == IF i = 1 THEN 0 ELSE rates[i - 1].Max

\* the part of net lying above the previous bracket's upper bound and at or
\* below bracket i's upper bound
Portion(rates, i, net) ==
    LET hi == IF rates[i].Max = Unbounded THEN net ELSE Min(net, rates[i].Max)
        lo == PrevBound(rates, i)
    IN  IF hi > lo THEN hi - lo ELSE 0

\* the running remainder of the bracket walk on entry to bracket i
RECURSIVE RemainBefore(_, _, _)
RemainBefore(rates, i, net) ==
    IF i = 1 THEN net
    ELSE rateStep(rates[i - 1], net, RemainBefore(rates, i - 1, net)).remain

\* C1: every returned summary has exactly one statement per bracket of the
\* configured table, in configuration order, also when net income <= 0
C1_OneStatementPerBracket ==
    Computed =>
        /\ Len(summary.TaxStatements) = Len(taxConf.Rates)
        /\ \A i \in DOMAIN summary.TaxStatements :
               summary.TaxStatements[i].Rate = taxConf.Rates[i]

\* C2: for a well-formed table and net income > 0, the statement of bracket
\* i carries percentage_i times the part of net income that lies between
\* the previous bracket's upper bound and bracket i's upper bound
C2_MarginalTax ==
    (Computed /\ WellFormed(taxConf.Rates) /\ NetIncome > 0) =>
        \A i \in DOMAIN summary.TaxStatements :
            summary.TaxStatements[i].Tax =
                taxConf.Rates[i].Percentage * Portion(taxConf.Rates, i, NetIncome)

\* C3: a bounded bracket that net income extends beyond is taxed on its
\* span (upper bound minus the previous upper bound; the upper bound for
\* the first bracket) and the remainder drops by that span
C3_FullSpan ==
    (Computed /\ WellFormed(taxConf.Rates) /\ NetIncome > 0) =>
        \A i \in DOMAIN summary.TaxStatements :
            LET rate == taxConf.Rates[i]
                span == rate.Max - PrevBound(taxConf.Rates, i)
                remain == RemainBefore(taxConf.Rates, i, NetIncome)
            IN  (remain > 0 /\ NetIncome > rate.Max /\ rate.Max # Unbounded) =>
                    /\ summary.TaxStatements[i].Tax = span * rate.Percentage
                    /\ rateStep(rate, NetIncome, remain).remain = remain - span

\* C4 as stated: exactly one of Tax and Refund is non-zero in every summary
C4_ExactlyOneNonZero ==
    Computed => ((summary.Tax # 0) # (summary.Refund # 0))

\* C4 amended: exactly one of Tax and Refund is non-zero, unless the total
\* of the statement taxes equals the withholding, when both are zero
C4_ExactlyOneUnlessEqual ==
    Computed =>
        IF SumTax(summary.TaxStatements) = wht * Scale
        THEN summary.Tax = 0 /\ summary.Refund = 0
        ELSE (summary.Tax # 0) # (summary.Refund # 0)

C4_Witness ==
    /\ Computed
    /\ NetIncome > 0
    /\ wht > 0
    /\ SumTax(summary.TaxStatements) = wht * Scale
    /\ summary.Tax = 0
    /\ summary.Refund = 0

\* C5: Tax and Refund are never both non-zero
C5_NeverBothNonZero ==
    Computed => ~(summary.Tax # 0 /\ summary.Refund # 0)

C5_Witness ==
    /\ Computed
    /\ SumTax(summary.TaxStatements) > 0
    /\ summary.Refund > 0
    /\ summary.Tax = 0

\* C6: with totalTax the sum of the statement taxes, totalTax <= withholding
\* gives Refund = withholding - totalTax and Tax = 0, otherwise
\* Tax = totalTax - withholding and Refund = 0
C6_Reconciliation ==
    Computed =>
        LET totalTax == SumTax(summary.TaxStatements)
        IN  /\ IF totalTax <= wht * Scale
               THEN summary.Refund = wht * Scale - totalTax /\ summary.Tax = 0
               ELSE summary.Tax = totalTax - wht * Scale /\ summary.Refund = 0
            /\ summary.Tax - summary.Refund = totalTax - wht * Scale

C6_Witness ==
    /\ Computed
    /\ wht > 0
    /\ SumTax(summary.TaxStatements) > wht * Scale
    /\ summary.Tax > 0

\* C7: net income <= 0 gives Tax = 0 and Refund = the whole withholding
C7_NoNetIncomeFullRefund ==
    (Computed /\ NetIncome <= 0) =>
        summary.Tax = 0 /\ summary.Refund = wht * Scale

C7_Witness ==
    /\ Computed
    /\ NetIncome < 0
    /\ wht > 0
    /\ summary.Refund = wht * Scale

\* the submitted types that count: allowed and not default
Eligible ==
    (DOMAIN allowances \cap DOMAIN taxConf.AllowedAllowances)
        \ DOMAIN taxConf.DefaultAllowances

\* C8: total allowance = sum of the default amounts + for each submitted
\* type that is allowed and not default, min(submitted amount, cap)
C8_TotalAllowance ==
    Computed =>
        totalAllowance =
            SumAmounts(taxConf.DefaultAllowances, DOMAIN taxConf.DefaultAllowances)
            + SumAmounts([t \in Eligible |->
                             Min(allowances[t], taxConf.AllowedAllowances[t])],
                         Eligible)

C8_Witness ==
    /\ Computed
    /\ \E t \in Eligible : allowances[t] > taxConf.AllowedAllowances[t]
    /\ \E t \in Eligible : allowances[t] < taxConf.AllowedAllowances[t]
    /\ \E t \in DOMAIN allowances :
           t \in DOMAIN taxConf.DefaultAllowances /\ allowances[t] > 0
    /\ \E t \in DOMAIN allowances :
           /\ t \notin DOMAIN taxConf.DefaultAllowances
           /\ t \notin DOMAIN taxConf.AllowedAllowances
           /\ allowances[t] > 0

\* C9: an amount above the cap gives the same total allowance and the same
\* summary as exactly the cap, all else equal
C9_ReClamp ==
    Computed =>
        \A t \in DOMAIN allowances \cap DOMAIN taxConf.AllowedAllowances :
            allowances[t] > taxConf.AllowedAllowances[t] =>
                LET capped == [allowances EXCEPT ![t] = taxConf.AllowedAllowances[t]]
                IN  /\ totalAllowance = calculateTotalAllowance(taxConf, capped)
                    /\ summary = TaxSummaryOf(income, wht, capped, taxConf)

C9_Witness ==
    /\ Computed
    /\ NetIncome > 0
    /\ \E t \in Eligible : allowances[t] > taxConf.AllowedAllowances[t]

\* C10: a submitted allowance of a default type changes nothing: total
\* allowance and summary are those of the same input without it
C10_DefaultTypeIgnored ==
    Computed =>
        \A t \in DOMAIN allowances \cap DOMAIN taxConf.DefaultAllowances :
            LET without == [u \in DOMAIN allowances \ {t} |-> allowances[u]]
            IN  /\ totalAllowance = calculateTotalAllowance(taxConf, without)
                /\ summary = TaxSummaryOf(income, wht, without, taxConf)

C10_Witness ==
    /\ Computed
    /\ NetIncome > 0
    /\ \E t \in DOMAIN allowances :
           /\ t \in DOMAIN taxConf.DefaultAllowances
           /\ t \in DOMAIN taxConf.AllowedAllowances
           /\ allowances[t] > 0

\* C11: a submitted allowance whose type is in neither table is ignored:
\* total allowance and summary are those of the same input without it
C11_UnknownTypeIgnored ==
    Computed =>
        \A t \in DOMAIN allowances :
            (/\ t \notin DOMAIN taxConf.DefaultAllowances
             /\ t \notin DOMAIN taxConf.AllowedAllowances) =>
                LET without == [u \in DOMAIN allowances \ {t} |-> allowances[u]]
                IN  /\ totalAllowance = calculateTotalAllowance(taxConf, without)
                    /\ summary = TaxSummaryOf(income, wht, without, taxConf)

C11_Witness ==
    /\ Computed
    /\ NetIncome > 0
    /\ Eligible # {}
    /\ \E t \in DOMAIN allowances :
           /\ t \notin DOMAIN taxConf.DefaultAllowances
           /\ t \notin DOMAIN taxConf.AllowedAllowances
           /\ allowances[t] > 0

PercentagesInRange(rates) ==
    \A i \in DOMAIN rates : rates[i].Percentage >= 0 /\ rates[i].Percentage <= Scale

\* C12: with income >= 0, withholding >= 0 and percentages in [0,1], every
\* summary has Tax >= 0 and Refund >= 0
C12_NonNegative ==
    (Computed /\ income >= 0 /\ wht >= 0 /\ PercentagesInRange(taxConf.Rates)) =>
        summary.Tax >= 0 /\ summary.Refund >= 0

C12_Witness ==
    /\ Computed
    /\ PercentagesInRange(taxConf.Rates)
    /\ wht > 0
    /\ SumTax(summary.TaxStatements) > 0
    /\ SumTax(summary.TaxStatements) < wht * Scale
    /\ summary.Refund > 0

\* the bracket at which the walk tests its terminal condition with income
\* left: remainder > 0 and (net income <= upper bound or unbounded)
Terminal(rates, i, net) ==
    /\ RemainBefore(rates, i, net) > 0
    /\ (net <= rates[i].Max \/ rates[i].Max = Unbounded)

\* C17: a bracket reached with remainder > 0 whose upper bound is >= the
\* original net income, or which is unbounded, is taxed on the whole
\* remainder, the remainder becomes 0 and every later statement has tax 0;
\* a bounded bracket below the original net income is not taxed on the
\* remainder even when the remainder is within its upper bound
C17_TerminalBracket ==
    (Computed /\ NetIncome > 0) =>
        \A i \in DOMAIN summary.TaxStatements :
            LET rate == taxConf.Rates[i]
                remain == RemainBefore(taxConf.Rates, i, NetIncome)
            IN  /\ Terminal(taxConf.Rates, i, NetIncome) =>
                    /\ summary.TaxStatements[i].Tax = remain * rate.Percentage
                    /\ rateStep(rate, NetIncome, remain).remain = 0
                    /\ \A j \in DOMAIN summary.TaxStatements :
                           j > i => summary.TaxStatements[j].Tax = 0
                /\ (/\ remain > 0
                    /\ remain < rate.Max
                    /\ NetIncome > rate.Max
                    /\ rate.Percentage > 0) =>
                       summary.TaxStatements[i].Tax # remain * rate.Percentage

C17_Witness ==
    /\ Computed
    /\ NetIncome > 0
    /\ \E i \in DOMAIN summary.TaxStatements :
           /\ i > 1
           /\ i < Len(taxConf.Rates)
           /\ Terminal(taxConf.Rates, i, NetIncome)
           /\ taxConf.Rates[i].Max # Unbounded
           /\ summary.TaxStatements[i].Tax > 0
           /\ RemainBefore(taxConf.Rates, i, NetIncome) < NetIncome

\* C18: a bracket with the sentinel upper bound takes the whole current
\* remainder at its rate wherever it sits in the table, and every bracket
\* after it gets a zero-tax statement
C18_SentinelAnywhere ==
    (Computed /\ NetIncome > 0) =>
        \A i \in DOMAIN summary.TaxStatements :
            taxConf.Rates[i].Max = Unbounded =>
                LET remain == RemainBefore(taxConf.Rates, i, NetIncome)
                IN  /\ summary.TaxStatements[i].Tax =
                           (IF remain > 0 THEN remain ELSE 0)
                               * taxConf.Rates[i].Percentage
                    /\ \A j \in DOMAIN summary.TaxStatements :
                           j > i => summary.TaxStatements[j].Tax = 0

C18_Witness ==
    /\ Computed
    /\ NetIncome > 0
    /\ \E i \in DOMAIN summary.TaxStatements :
           /\ i > 1
           /\ i < Len(taxConf.Rates)
           /\ taxConf.Rates[i].Max = Unbounded
           /\ summary.TaxStatements[i].Tax > 0
           /\ NetIncome < taxConf.Rates[i + 1].Max

\* C20: a step that returns a summary leaves income, withholding, submitted
\* allowances and configuration unchanged, and a summary returned right
\* after another summary equals it
C20_SummaryLeavesEngineUnchanged ==
    [][Computed' =>
          /\ income' = income
          /\ wht' = wht
          /\ allowances' = allowances
          /\ taxConf' = taxConf
          /\ (Computed => summary' = summary)]_vars

C20_Witness ==
    /\ Computed
    /\ NetIncome > 0
    /\ wht > 0
    /\ \E t \in Eligible : allowances[t] > taxConf.AllowedAllowances[t]
    /\ summary = TaxSummaryOf(income, wht, allowances, taxConf)

\* the amount bracket i multiplies by its percentage in the walk over net
TaxedAmount(rates, i, net) ==
    LET remain == RemainBefore(rates, i, net)
    IN  remain - rateStep(rates[i], net, remain).remain

RECURSIVE SumTaxedAmounts(_, _, _)
SumTaxedAmounts(rates, i, net) ==
    IF i = 0 THEN 0
    ELSE TaxedAmount(rates, i, net) + SumTaxedAmounts(rates, i - 1, net)

\* C23: in the walk over a well-formed table with net income > 0 the
\* running remainder is never negative and the amounts taxed in the
\* brackets add up to the net income
C23_RemainderConserved ==
    (Computed /\ WellFormed(taxConf.Rates) /\ NetIncome > 0) =>
        /\ \A i \in 1..(Len(taxConf.Rates) + 1) :
               RemainBefore(taxConf.Rates, i, NetIncome) >= 0
        /\ SumTaxedAmounts(taxConf.Rates, Len(taxConf.Rates), NetIncome) = NetIncome

\* C24: for a well-formed table with percentages in [0,1] and net income
\* > 0 the sum of the statement taxes does not exceed the net income
C24_TaxAtMostNetIncome ==
    (Computed /\ WellFormed(taxConf.Rates) /\ PercentagesInRange(taxConf.Rates)
        /\ NetIncome > 0)
    => SumTax(summary.TaxStatements) <= NetIncome * Scale

NonDecreasingPercentages(rates) ==
    \A i \in 1..(Len(rates) - 1) : rates[i].Percentage <= rates[i + 1].Percentage

\* the sum of the statement taxes of a summary for this net income; no
\* statement exists when nothing is taxable
TotalTax(conf, net) ==
    IF net <= 0 THEN 0 ELSE SumTax(calculateTaxStatement(conf, net))

TotalTaxOf(inc, allow, conf) ==
    TotalTax(conf, inc - calculateTotalAllowance(conf, allow))

\* an allowance map that differs from allow by one more type or by one
\* raised amount
Raised(allow) ==
    { addAllowance(allow, p[1], p[2]) :
        p \in { q \in AllowanceTypes \X Amounts :
                   q[1] \notin DOMAIN allow \/ q[2] >= allow[q[1]] } }

SumCaps(conf) == SumAmounts(conf.AllowedAllowances, DOMAIN conf.AllowedAllowances)

SumDefaults(conf) == SumAmounts(conf.DefaultAllowances, DOMAIN conf.DefaultAllowances)

\* C26: with non-negative amounts and caps the total allowance lies between
\* the sum of the defaults and that sum plus the sum of the allowed caps,
\* whatever allowances were added
C26_TotalAllowanceBounds ==
    (Computed /\ (\A t \in DOMAIN allowances : allowances[t] >= 0)
        /\ (\A t \in DOMAIN taxConf.AllowedAllowances : taxConf.AllowedAllowances[t] >= 0))
    => /\ SumDefaults(taxConf) <= totalAllowance
       /\ totalAllowance <= SumDefaults(taxConf) + SumCaps(taxConf)

C26_Witness ==
    /\ Computed
    /\ Cardinality(DOMAIN allowances) = Cardinality(AllowanceTypes)
    /\ \E t \in Eligible : allowances[t] > taxConf.AllowedAllowances[t]
    /\ totalAllowance > SumDefaults(taxConf)
    /\ totalAllowance = SumDefaults(taxConf) + SumCaps(taxConf)

\* =================================================================
\* The HTTP handlers (package handler) over the engine and the database
\* =================================================================
StatusOK == 200

StatusBadRequest == 400

StatusInternalServerError == 500

\* the longest allowances list of a request
MaxAllowances == 2

\* the bracket table every handler passes to NewTax
rates ==
    << Rate(0, 150000, "0-150,000"),
       Rate(10, 500000, "150,001-500,000"),
       Rate(15, 1000000, "500,001-1,000,000"),
       Rate(20, 2000000, "1,000,001-2,000,000"),
       Rate(35, Unbounded, "2,000,001+") >>

NoConf == TaxConfig(<<>>, EmptyAllowances, EmptyAllowances)

\* what a handler leaves of the engine: the Tax value it built, if any
NoTx ==
    [built |-> FALSE, income |-> 0, wht |-> 0, allowances |-> EmptyAllowances,
     taxConf |-> NoConf, summary |-> NoSummary, totalAllowance |-> NoTotal]

ResponseMsg(status, message) ==
    [status |-> status, message |-> message, body |-> NoBody]

\* a handler that answered without touching the database or the engine
Rejected(status, message) ==
    [resp |-> ResponseMsg(status, message), calls |-> <<>>, tx |-> NoTx, db |-> SeedDB]

\* ---------------------------------------------------------- requests
HttpIncomes == {-1, 0, 110000, 500000, 735000}

HttpWhts == {-1, 0, 25000, 600000}

HttpAllowanceTypes == {"donation", "k-receipt", "something", "Donation"}

\* the allowance types of the requests that are not all lower case
NotLowercase == {"Donation"}

HttpAmounts == {-1, 20000, 200000}

\* the allowances the requests list: every amount of the types the handler
\* accepts, one allowance of each type it rejects, and a negative amount
HttpAllowance ==
    [AllowanceType : {"donation", "k-receipt"}, Amount : HttpAmounts \ {-1}]
    \cup [AllowanceType : HttpAllowanceTypes \ {"donation", "k-receipt"}, Amount : {20000}]
    \cup {[AllowanceType |-> "donation", Amount |-> -1]}

\* a body that does not bind to TaxRequest
UnboundTaxRequest ==
    [kind |-> "tax", bind |-> FALSE, TotalIncome |-> 0, Wht |-> 0,
     Allowances |-> [nil |-> TRUE, items |-> <<>>]]

\* the requests a client starts from: "allowances" missing or an empty list
TaxRequests ==
    {UnboundTaxRequest} \cup
    [kind : {"tax"}, bind : {TRUE}, TotalIncome : HttpIncomes, Wht : HttpWhts,
     Allowances : [nil : BOOLEAN, items : {<<>>}]]

AdminAmounts == {-1, 0, 9999, 10000, 100000, 100001}

UnboundAdminRequest == [kind |-> "admin", bind |-> FALSE, Amount |-> 0]

AdminRequests ==
    {UnboundAdminRequest} \cup [kind : {"admin"}, bind : {TRUE}, Amount : AdminAmounts]

\* ---------------------------------------------------------- database
\* UPDATE default_allowances SET amount WHERE allowance_type RETURNING:
\* no row to scan when the type is missing
UpdateAmountDefaultAllowances(d, allowanceType, amount, fail) ==
    IF fail \/ allowanceType \notin DOMAIN d.default
    THEN [err |-> TRUE, Amount |-> 0, db |-> d]
    ELSE [err |-> FALSE, Amount |-> amount,
          db |-> [d EXCEPT !.default = [@ EXCEPT ![allowanceType] = amount]]]

\* getDefaultAllowancesMap that answers from the rows read at start-up
getDefaultAllowancesMap_cached(d, fail) ==
    IF fail THEN [err |-> TRUE, map |-> EmptyAllowances]
    ELSE [err |-> FALSE, map |-> SeedDB.default]

\* FindAllDefaultAllowances folded into a map
getDefaultAllowancesMap(d, fail) ==
    IF fail THEN [err |-> TRUE, map |-> EmptyAllowances]
    ELSE [err |-> FALSE, map |-> d.default]

\* getAllowedAllowancesMap that returns an empty map instead of the error
getAllowedAllowancesMap_swallowError(d, fail) ==
    IF fail THEN [err |-> FALSE, map |-> EmptyAllowances]
    ELSE [err |-> FALSE, map |-> d.allowed]

\* FindAllAllowedAllowances folded into a map
getAllowedAllowancesMap(d, fail) ==
    IF fail THEN [err |-> TRUE, map |-> EmptyAllowances]
    ELSE [err |-> FALSE, map |-> d.allowed]

\* ---------------------------------------------------------- validation
\* validate:"required,number,gte=0": required rejects the zero value
validAmountRequired(v) == v # 0 /\ v >= 0

\* validate:"required,lowercase" and validate:"number,gte=0"
validAllowance(a) ==
    /\ a.AllowanceType # ""
    /\ a.AllowanceType \notin NotLowercase
    /\ a.Amount >= 0

\* the struct validation of TaxRequest
validTaxRequest(r) ==
    /\ validAmountRequired(r.TotalIncome)
    /\ r.Wht >= 0
    /\ ~r.Allowances.nil
    /\ \A i \in DOMAIN r.Allowances.items : validAllowance(r.Allowances.items[i])

\* the struct validation of AdminTaxRequest
validAdminRequest(r) == validAmountRequired(r.Amount)

\* --------------------------------------------------------- UpdatePesonal
\* UpdatePesonal that lets the upper limit through unchecked
updatePesonal_noUpperLimit(r, d, fail) ==
    IF ~r.bind THEN [Rejected(StatusBadRequest, "Bad request") EXCEPT !.db = d]
    ELSE IF ~validAdminRequest(r)
    THEN [Rejected(StatusBadRequest, "Bad request") EXCEPT !.db = d]
    ELSE IF r.Amount < 10000
    THEN [Rejected(StatusBadRequest, "Invalid amount") EXCEPT !.db = d]
    ELSE LET u == UpdateAmountDefaultAllowances(d, "personal", r.Amount, fail)
         IN  IF u.err
             THEN [resp |-> ResponseMsg(StatusInternalServerError,
                                        "Failed to update personal amount"),
                   calls |-> <<"UpdateAmountDefaultAllowances">>,
                   tx |-> NoTx, db |-> u.db]
             ELSE [resp |-> [status |-> StatusOK, message |-> "",
                             body |-> [personalDeduction |-> u.Amount]],
                   calls |-> <<"UpdateAmountDefaultAllowances">>,
                   tx |-> NoTx, db |-> u.db]

updatePesonal(r, d, fail) ==
    IF ~r.bind THEN [Rejected(StatusBadRequest, "Bad request") EXCEPT !.db = d]
    ELSE IF ~validAdminRequest(r)
    THEN [Rejected(StatusBadRequest, "Bad request") EXCEPT !.db = d]
    ELSE IF r.Amount < 10000 \/ r.Amount > 100000
    THEN [Rejected(StatusBadRequest, "Invalid amount") EXCEPT !.db = d]
    ELSE LET u == UpdateAmountDefaultAllowances(d, "personal", r.Amount, fail)
         IN  IF u.err
             THEN [resp |-> ResponseMsg(StatusInternalServerError,
                                        "Failed to update personal amount"),
                   calls |-> <<"UpdateAmountDefaultAllowances">>,
                   tx |-> NoTx, db |-> u.db]
             ELSE [resp |-> [status |-> StatusOK, message |-> "",
                             body |-> [personalDeduction |-> u.Amount]],
                   calls |-> <<"UpdateAmountDefaultAllowances">>,
                   tx |-> NoTx, db |-> u.db]

\* ---------------------------------------------------------- CalculateTax
RECURSIVE addAllowances(_, _)
addAllowances(allow, items) ==
    IF items = <<>> THEN allow
    ELSE addAllowances(addAllowance(allow, Head(items).AllowanceType,
                                    Head(items).Amount),
                       Tail(items))

\* the Tax value after NewTax, the setters and CalculateTaxSummary
runTax(conf, inc, w, allow) ==
    [built |-> TRUE, income |-> inc, wht |-> w, allowances |-> allow,
     taxConf |-> conf,
     summary |-> TaxSummaryOf(inc, w, allow, conf),
     totalAllowance |-> calculateTotalAllowance(conf, allow)]

TaxLevels(statements) ==
    [i \in DOMAIN statements |->
        [Level |-> statements[i].Rate.Label, Tax |-> statements[i].Tax]]

TaxResponse(s) ==
    [status |-> StatusOK, message |-> "",
     body |-> [Tax |-> s.Tax, TaxRefund |-> s.Refund,
               TaxLevel |-> TaxLevels(s.TaxStatements)]]

InternalServerError(callsMade, d) ==
    [resp |-> ResponseMsg(StatusInternalServerError, "Internal server error"),
     calls |-> callsMade, tx |-> NoTx, db |-> d]

\* CalculateTax that looks the allowances up before it checks the withholding
calculateTax_lateWhtCheck(r, d, failDefault, failAllowed) ==
    IF ~r.bind THEN [Rejected(StatusBadRequest, "Bad request") EXCEPT !.db = d]
    ELSE IF ~validTaxRequest(r)
    THEN [Rejected(StatusBadRequest, "Bad request") EXCEPT !.db = d]
    ELSE LET dm == getDefaultAllowancesMap(d, failDefault)
             am == getAllowedAllowancesMap(d, failAllowed)
         IN  IF dm.err THEN InternalServerError(<<"FindAllDefaultAllowances">>, d)
             ELSE IF am.err
             THEN InternalServerError(<<"FindAllDefaultAllowances",
                                        "FindAllAllowedAllowances">>, d)
             ELSE IF r.TotalIncome < r.Wht
             THEN [resp |-> ResponseMsg(StatusBadRequest, "Invalid wht"),
                   calls |-> <<"FindAllDefaultAllowances", "FindAllAllowedAllowances">>,
                   tx |-> NoTx, db |-> d]
             ELSE LET tx == runTax(TaxConfig(rates, am.map, dm.map),
                                   r.TotalIncome, r.Wht,
                                   addAllowances(EmptyAllowances, r.Allowances.items))
                  IN  [resp |-> TaxResponse(tx.summary),
                       calls |-> <<"FindAllDefaultAllowances", "FindAllAllowedAllowances">>,
                       tx |-> tx, db |-> d]

calculateTax(r, d, failDefault, failAllowed) ==
    IF ~r.bind THEN [Rejected(StatusBadRequest, "Bad request") EXCEPT !.db = d]
    ELSE IF ~validTaxRequest(r)
    THEN [Rejected(StatusBadRequest, "Bad request") EXCEPT !.db = d]
    ELSE IF r.TotalIncome < r.Wht
    THEN [Rejected(StatusBadRequest, "Invalid wht") EXCEPT !.db = d]
    ELSE LET dm == getDefaultAllowancesMap(d, failDefault)
             am == getAllowedAllowancesMap(d, failAllowed)
         IN  IF dm.err THEN InternalServerError(<<"FindAllDefaultAllowances">>, d)
             ELSE IF am.err
             THEN InternalServerError(<<"FindAllDefaultAllowances",
                                        "FindAllAllowedAllowances">>, d)
             ELSE LET tx == runTax(TaxConfig(rates, am.map, dm.map),
                                   r.TotalIncome, r.Wht,
                                   addAllowances(EmptyAllowances, r.Allowances.items))
                  IN  [resp |-> TaxResponse(tx.summary),
                       calls |-> <<"FindAllDefaultAllowances", "FindAllAllowedAllowances">>,
                       tx |-> tx, db |-> d]

\* --------------------------------------------------- CalculateTaxWithCSV
\* the most records (header included) of a CSV body
MaxRecords == 4

\* the most records of a CSV body that are not a good header or data row
MaxBadRecords == 1

CsvHeader == <<"totalIncome", "wht", "donation">>

\* data rows that pass every check of the handler
GoodRecords ==
    { <<"500000", "0", "0">>,
      <<"600000", "40000", "20000">>,
      <<"750000", "50000", "15000">> }

\* data rows that fail one check of the handler each
BadRecords ==
    { <<"500000", "0", "0", "0">>,
      <<"500000", "0">>,
      <<"aaaa", "0", "0">>,
      <<"500000", "aaaaa", "0">>,
      <<"500000", "0", "aaaaa">>,
      <<"-1", "0", "0">>,
      <<"500000", "-1", "0">>,
      <<"500000", "0", "-1">>,
      <<"500000", "600000", "0">> }

\* first records that are not the header: other headers, a data row in
\* its place, a row of four columns
BadHeaders ==
    { <<"totalIncome", "wht", "k-receipt">>,
      <<"totalIncome", "wht", "donation", "k-receipt">>,
      <<"500000", "0", "0">>,
      <<"500000", "0", "0", "0">> }

\* what a client writes as the first record of a body
CsvHeaders == {CsvHeader} \cup BadHeaders

\* ... and as each later one
CsvRecords == GoodRecords \cup BadRecords

ContentTypes == {"text/csv", "application/json"}

CsvRequests == [kind : {"csv"}, contentType : ContentTypes, records : {<<>>}]

\* the decimal numerals among the cells, with their values
Numerals ==
    ("0" :> 0) @@ ("-1" :> -1) @@ ("15000" :> 15000) @@ ("20000" :> 20000)
    @@ ("40000" :> 40000) @@ ("50000" :> 50000) @@ ("500000" :> 500000)
    @@ ("600000" :> 600000) @@ ("750000" :> 750000)

\* strconv.ParseFloat on a cell: an error for what is not a numeral
ParseFloat(cell) ==
    IF cell \in DOMAIN Numerals THEN [err |-> FALSE, v |-> Numerals[cell]]
    ELSE [err |-> TRUE, v |-> 0]

\* csv.Reader.ReadAll with FieldsPerRecord = 0: every record must have as
\* many fields as the first
csvReadAll(records) ==
    IF \E i \in DOMAIN records : Len(records[i]) # Len(records[1])
    THEN [err |-> TRUE, rows |-> <<>>]
    ELSE [err |-> FALSE, rows |-> records]

Invalid(message) == [err |-> TRUE, message |-> message, datasets |-> <<>>]

\* validateRow without the comparison of income and wht
validateRow_noWhtCheck(row) ==
    LET inc == ParseFloat(row[1])
        w == ParseFloat(row[2])
        donation == ParseFloat(row[3])
    IN  IF inc.err THEN Invalid("Invalid income amount")
        ELSE IF w.err THEN Invalid("Invalid wht amount")
        ELSE IF donation.err THEN Invalid("Invalid donation amount")
        ELSE IF inc.v < 0 THEN Invalid("Invalid income amount")
        ELSE IF w.v < 0 THEN Invalid("Invalid wht amount")
        ELSE IF donation.v < 0 THEN Invalid("Invalid donation amount")
        ELSE [err |-> FALSE, message |-> "",
              datasets |-> << <<inc.v, w.v, donation.v>> >>]

\* the checks of one data row, in the order of the source
validateRow(row) ==
    LET inc == ParseFloat(row[1])
        w == ParseFloat(row[2])
        donation == ParseFloat(row[3])
    IN  IF inc.err THEN Invalid("Invalid income amount")
        ELSE IF w.err THEN Invalid("Invalid wht amount")
        ELSE IF donation.err THEN Invalid("Invalid donation amount")
        ELSE IF inc.v < 0 THEN Invalid("Invalid income amount")
        ELSE IF w.v < 0 THEN Invalid("Invalid wht amount")
        ELSE IF donation.v < 0 THEN Invalid("Invalid donation amount")
        ELSE IF inc.v < w.v
        THEN Invalid("Income amount should be more than wht amount")
        ELSE [err |-> FALSE, message |-> "",
              datasets |-> << <<inc.v, w.v, donation.v>> >>]

\* the validation loop from row i on, datasets collected so far
RECURSIVE validateRows(_, _, _)
validateRows(rows, i, datasets) ==
    IF i > Len(rows) THEN [err |-> FALSE, message |-> "", datasets |-> datasets]
    ELSE IF Len(rows[i]) # 3 THEN Invalid("Wrong csv column length")
    ELSE IF i = 1
    THEN IF rows[i][1] # "totalIncome" \/ rows[i][2] # "wht" \/ rows[i][3] # "donation"
         THEN Invalid("Wrong csv header")
         ELSE validateRows(rows, i + 1, datasets)
    ELSE LET v == validateRow(rows[i])
         IN  IF v.err THEN v
             ELSE validateRows(rows, i + 1, datasets \o v.datasets)

\* the Tax value the handler builds for one row
rowTax(conf, d) ==
    runTax(conf, d[1], d[2], addAllowance(EmptyAllowances, "donation", d[3]))

\* TaxCSVResponse with the results in reverse order
TaxCSVResponse_reversed(conf, datasets) ==
    [status |-> StatusOK, message |-> "",
     body |-> [taxes |-> [i \in DOMAIN datasets |->
                            [TotalIncome |-> datasets[Len(datasets) + 1 - i][1],
                             Tax |-> rowTax(conf, datasets[Len(datasets) + 1 - i]).summary.Tax]]]]

TaxCSVResponse(conf, datasets) ==
    [status |-> StatusOK, message |-> "",
     body |-> [taxes |-> [i \in DOMAIN datasets |->
                            [TotalIncome |-> datasets[i][1],
                             Tax |-> rowTax(conf, datasets[i]).summary.Tax]]]]

calculateTaxWithCSV(r, d, failDefault, failAllowed) ==
    IF r.contentType # "text/csv"
    THEN [Rejected(StatusBadRequest, "Unaceptable content, require CSV content")
              EXCEPT !.db = d]
    ELSE LET rd == csvReadAll(r.records)
             v == validateRows(rd.rows, 1, <<>>)
             bad(m) == [Rejected(StatusBadRequest, m) EXCEPT !.db = d]
         IN  IF rd.err THEN bad("Bad request, might not be csv format")
             ELSE IF Len(rd.rows) = 0 THEN bad("Wrong csv content, no content")
             ELSE IF Len(rd.rows) = 1
             THEN bad("Wrong csv content, should have more than 1 row due to it is header")
             ELSE IF v.err THEN bad(v.message)
             ELSE LET dm == getDefaultAllowancesMap(d, failDefault)
                      am == getAllowedAllowancesMap(d, failAllowed)
                      both == <<"FindAllDefaultAllowances", "FindAllAllowedAllowances">>
                      conf == TaxConfig(rates, am.map, dm.map)
                  IN  IF dm.err
                      THEN InternalServerError(<<"FindAllDefaultAllowances">>, d)
                      ELSE IF am.err THEN InternalServerError(both, d)
                      ELSE [resp |-> TaxCSVResponse(conf, v.datasets),
                            calls |-> both,
                            tx |-> rowTax(conf, v.datasets[Len(v.datasets)]),
                            db |-> d]

\* ------------------------------------------------------- handler actions
\* what serving request r with outcome o leaves behind
Served(r, o) ==
    /\ req' = r
    /\ resp' = o.resp
    /\ calls' = o.calls
    /\ db' = o.db
    /\ income' = o.tx.income
    /\ wht' = o.tx.wht
    /\ allowances' = o.tx.allowances
    /\ taxConf' = o.tx.taxConf
    /\ summary' = o.tx.summary
    /\ totalAllowance' = o.tx.totalAllowance

\* the server after start-up: seeded database, nothing served yet
InitHandlers ==
    /\ db = SeedDB
    /\ req = NoRequest
    /\ resp = NoResponse
    /\ calls = <<>>
    /\ proc = NoProc
    /\ history = {SeedDB}
    /\ income = NoTx.income
    /\ wht = NoTx.wht
    /\ allowances = NoTx.allowances
    /\ taxConf = NoTx.taxConf
    /\ summary = NoTx.summary
    /\ totalAllowance = NoTx.totalAllowance

\* a request that has not been answered yet
Pending(kind) == req.kind = kind /\ resp = NoResponse

\* no exchange is under way
Idle == resp # NoResponse \/ req = NoRequest

\* a new request r arrives: the previous exchange is over
Arrives(r) ==
    /\ Idle
    /\ req' = r
    /\ resp' = NoResponse
    /\ calls' = <<>>
    /\ income' = NoTx.income
    /\ wht' = NoTx.wht
    /\ allowances' = NoTx.allowances
    /\ taxConf' = NoTx.taxConf
    /\ summary' = NoTx.summary
    /\ totalAllowance' = NoTx.totalAllowance
    /\ UNCHANGED db
    /\ UNCHANGED cvars

\* a client starts the body of a POST /tax/calculations
PostTaxRequest == \E r \in TaxRequests : Arrives(r)

\* ... and lists one more allowance in it
PostTaxAllowance ==
    /\ Pending("tax")
    /\ req.bind
    /\ ~req.Allowances.nil
    /\ Len(req.Allowances.items) < MaxAllowances
    /\ \E a \in HttpAllowance :
           req' = [req EXCEPT !.Allowances.items = Append(@, a)]
    /\ UNCHANGED <<db, resp, calls>>
    /\ UNCHANGED evars
    /\ UNCHANGED cvars

\* a client starts the body of a POST /tax/calculations/upload-csv
PostCSVRequest == \E r \in CsvRequests : Arrives(r)

BadCount(records) ==
    Cardinality({i \in DOMAIN records :
                    records[i] \in (IF i = 1 THEN BadHeaders ELSE BadRecords)})

\* ... and writes one more record into it
PostCSVRecord ==
    /\ Pending("csv")
    /\ req.contentType = "text/csv"
    /\ Len(req.records) < MaxRecords
    /\ \E record \in (IF req.records = <<>> THEN CsvHeaders ELSE CsvRecords) :
           /\ BadCount(Append(req.records, record)) <= MaxBadRecords
           /\ req' = [req EXCEPT !.records = Append(@, record)]
    /\ UNCHANGED <<db, resp, calls>>
    /\ UNCHANGED evars
    /\ UNCHANGED cvars

CalculateTaxWithCSV ==
    /\ Pending("csv")
    /\ \E failDefault \in BOOLEAN, failAllowed \in BOOLEAN :
           Served(req, calculateTaxWithCSV(req, db, failDefault, failAllowed))
    /\ UNCHANGED cvars

UpdatePesonal ==
    /\ Idle
    /\ \E r \in AdminRequests, fail \in BOOLEAN :
           Served(r, updatePesonal(r, db, fail))
    /\ UNCHANGED cvars

CalculateTax ==
    /\ Pending("tax")
    /\ \E failDefault \in BOOLEAN, failAllowed \in BOOLEAN :
           Served(req, calculateTax(req, db, failDefault, failAllowed))
    /\ UNCHANGED cvars

NextHandlers ==
    \/ PostTaxRequest
    \/ PostTaxAllowance
    \/ CalculateTax
    \/ PostCSVRequest
    \/ PostCSVRecord
    \/ CalculateTaxWithCSV
    \/ UpdatePesonal

SpecHandlers == InitHandlers /\ [][NextHandlers]_vars

\* ------------------------------------------------- handler properties
AnsweredTax == req.kind = "tax" /\ resp # NoResponse

AnsweredCSV == req.kind = "csv" /\ resp # NoResponse

AnsweredAdmin == req.kind = "admin" /\ resp # NoResponse

NoLookupNoComputation == calls = <<>> /\ summary = NoSummary

TestBatch ==
    <<CsvHeader,
      <<"500000", "0", "0">>,
      <<"600000", "40000", "20000">>,
      <<"750000", "50000", "15000">>>>

\* C13: with personal 60,000 and a donation cap of 100,000, the CSV batch
\* (500000,0,0), (600000,40000,20000), (750000,50000,15000) is answered
\* with the taxes 29,000, 10,000 and 3,750, in that order.
C13_CsvBatch ==
    (AnsweredCSV /\ req.records = TestBatch /\ resp.status = StatusOK
        /\ db.default["personal"] = 60000 /\ db.allowed["donation"] = 100000)
    => resp.body.taxes =
         <<[TotalIncome |-> 500000, Tax |-> 29000 * Scale],
           [TotalIncome |-> 600000, Tax |-> 10000 * Scale],
           [TotalIncome |-> 750000, Tax |-> 3750 * Scale]>>

C13_Witness ==
    /\ AnsweredCSV /\ req.records = TestBatch /\ resp.status = StatusOK
    /\ db.default["personal"] = 60000 /\ db.allowed["donation"] = 100000
    /\ Len(resp.body.taxes) = 3

\* C14 as stated: every tax request whose wht exceeds its totalIncome is
\* answered with 400 "Invalid wht"; for it and for every request that fails
\* binding or validation there is no lookup and no tax computation.
C14_InvalidWht ==
    AnsweredTax =>
      /\ (req.bind /\ req.Wht > req.TotalIncome)
           => resp = ResponseMsg(StatusBadRequest, "Invalid wht")
      /\ (~req.bind \/ ~validTaxRequest(req) \/ req.Wht > req.TotalIncome)
           => NoLookupNoComputation

\* C14 amended: a tax request that binds and passes field validation and
\* whose wht exceeds its totalIncome is answered with 400 "Invalid wht"; a
\* request that fails binding or validation is answered with 400
\* "Bad request", whatever its wht; in both cases there is no lookup and no
\* tax computation.
C14_InvalidWhtWhenValid ==
    AnsweredTax =>
      /\ (req.bind /\ validTaxRequest(req) /\ req.Wht > req.TotalIncome)
           => resp = ResponseMsg(StatusBadRequest, "Invalid wht")
      /\ (~req.bind \/ ~validTaxRequest(req))
           => resp = ResponseMsg(StatusBadRequest, "Bad request")
      /\ (~req.bind \/ ~validTaxRequest(req) \/ req.Wht > req.TotalIncome)
           => NoLookupNoComputation

C14_Witness ==
    /\ AnsweredTax /\ req.bind /\ validTaxRequest(req)
    /\ req.Wht > req.TotalIncome
    /\ resp.message = "Invalid wht"
    /\ Len(req.Allowances.items) > 0

\* the cases in which the CSV handler must reject the whole body
CsvMalformed(records) ==
    \/ Len(records) < 2
    \/ \E i \in DOMAIN records : Len(records[i]) # 3
    \/ records[1] # CsvHeader
    \/ \E i \in 2..Len(records) : \E k \in 1..3 :
          records[i][k] \notin DOMAIN Numerals \/ Numerals[records[i][k]] < 0
    \/ \E i \in 2..Len(records) :
          Numerals[records[i][1]] < Numerals[records[i][2]]

C16_PersonalRange ==
    (AnsweredAdmin /\ req.bind) =>
      IF req.Amount < 10000 \/ req.Amount > 100000
      THEN resp = ResponseMsg(StatusBadRequest, "Invalid amount") /\ calls = <<>>
      ELSE /\ resp.status = StatusOK
           /\ db.default["personal"] = req.Amount
           /\ resp.body = [personalDeduction |-> db.default["personal"]]

\* C16 amended: an amount outside 10,000..100,000 is answered with 400 and
\* no database update, with "Invalid amount" when the amount is positive
\* and "Bad request" when it is zero or negative; an amount inside the
\* range invokes the update, and unless the update fails (500) the personal
\* default allowance is the amount and personalDeduction is the amount the
\* database returned.
C16_PersonalRangeWhenPositive ==
    (AnsweredAdmin /\ req.bind) =>
      IF req.Amount < 10000 \/ req.Amount > 100000
      THEN /\ resp = ResponseMsg(StatusBadRequest,
                       IF req.Amount > 0 THEN "Invalid amount" ELSE "Bad request")
           /\ calls = <<>>
      ELSE /\ calls = <<"UpdateAmountDefaultAllowances">>
           /\ \/ resp = ResponseMsg(StatusInternalServerError,
                                    "Failed to update personal amount")
              \/ /\ resp.status = StatusOK
                 /\ db.default["personal"] = req.Amount
                 /\ resp.body = [personalDeduction |-> db.default["personal"]]

C16_Witness ==
    /\ AnsweredAdmin /\ req.bind
    /\ req.Amount = 100000
    /\ resp.status = StatusOK
    /\ db.default["personal"] = 100000

\* the amount of the last entry of the list with that type
LastAmount(items, t) ==
    LET last == CHOOSE i \in DOMAIN items :
                   /\ items[i].AllowanceType = t
                   /\ \A j \in DOMAIN items : j > i => items[j].AllowanceType # t
    IN  items[last].Amount

LastWins(items) ==
    [t \in {items[i].AllowanceType : i \in DOMAIN items} |-> LastAmount(items, t)]

\* C19: when a type is added more than once before the summary, the last
\* amount added replaces the earlier ones; amounts of one type are neither
\* summed nor kept from the first entry.
C19_LastAllowanceWins ==
    (AnsweredTax /\ resp.status = StatusOK) =>
      /\ allowances = LastWins(req.Allowances.items)
      /\ resp = TaxResponse(TaxSummaryOf(req.TotalIncome, req.Wht,
                                         LastWins(req.Allowances.items), taxConf))

C19_Witness ==
    /\ AnsweredTax /\ resp.status = StatusOK
    /\ Len(req.Allowances.items) = 2
    /\ req.Allowances.items[1].AllowanceType = req.Allowances.items[2].AllowanceType
    /\ req.Allowances.items[1].Amount # req.Allowances.items[2].Amount
    /\ allowances[req.Allowances.items[1].AllowanceType] = req.Allowances.items[2].Amount

BothLookups == <<"FindAllDefaultAllowances", "FindAllAllowedAllowances">>

\* a tax request that reaches the lookups
PassesChecks(r) == r.bind /\ validTaxRequest(r) /\ r.Wht <= r.TotalIncome

\* a CSV request that reaches the lookups
CsvAccepted(r) == r.contentType = "text/csv" /\ ~CsvMalformed(r.records)

\* the answer to a request that reached the lookups, by which of them failed
LookupOutcome(failDefault, failAllowed) ==
    IF failDefault
    THEN /\ resp' = ResponseMsg(StatusInternalServerError, "Internal server error")
         /\ calls' = <<"FindAllDefaultAllowances">>
         /\ summary' = NoSummary
    ELSE IF failAllowed
    THEN /\ resp' = ResponseMsg(StatusInternalServerError, "Internal server error")
         /\ calls' = BothLookups
         /\ summary' = NoSummary
    ELSE /\ resp'.status = StatusOK
         /\ calls' = BothLookups
         /\ summary' # NoSummary

\* C21: CalculateTax and CalculateTaxWithCSV look the default allowances up
\* before the allowed ones; a failed default lookup is answered 500
\* "Internal server error" without the allowed lookup, a failed allowed
\* lookup likewise, and in neither case is a tax computed or returned.
C21_LookupFailure ==
    [][ \A failDefault \in BOOLEAN, failAllowed \in BOOLEAN :
          ( \/ /\ Pending("tax") /\ PassesChecks(req)
               /\ Served(req, calculateTax(req, db, failDefault, failAllowed))
            \/ /\ Pending("csv") /\ CsvAccepted(req)
               /\ Served(req, calculateTaxWithCSV(req, db, failDefault, failAllowed)) )
          => LookupOutcome(failDefault, failAllowed) ]_vars

C21_Witness ==
    /\ AnsweredCSV /\ CsvAccepted(req)
    /\ resp = ResponseMsg(StatusInternalServerError, "Internal server error")
    /\ calls = BothLookups
    /\ summary = NoSummary

\* the data row i of a CSV body as numbers
RowValue(records, i, k) == Numerals[records[i + 1][k]]

\* C22: a valid CSV batch gets one result per data row, in input order, and
\* each row's tax is the payable Tax of a fresh engine given that row's
\* income, wht and donation alone, which is also what the row gets when it
\* is sent as a batch of its own.
C22_RowsIndependent ==
    (AnsweredCSV /\ resp.status = StatusOK) =>
      LET conf == TaxConfig(rates, db.allowed, db.default)
          taxes == resp.body.taxes
      IN  /\ Len(taxes) = Len(req.records) - 1
          /\ \A i \in DOMAIN taxes :
               /\ taxes[i].TotalIncome = RowValue(req.records, i, 1)
               /\ taxes[i].Tax =
                    TaxSummaryOf(RowValue(req.records, i, 1),
                                 RowValue(req.records, i, 2),
                                 "donation" :> RowValue(req.records, i, 3),
                                 conf).Tax
               /\ <<taxes[i]>> =
                    calculateTaxWithCSV(
                        [req EXCEPT !.records = <<CsvHeader, req.records[i + 1]>>],
                        db, FALSE, FALSE).resp.body.taxes

C22_Witness ==
    /\ AnsweredCSV /\ resp.status = StatusOK
    /\ Len(resp.body.taxes) = 3
    /\ resp.body.taxes[1].Tax > resp.body.taxes[2].Tax
    /\ resp.body.taxes[2].Tax > resp.body.taxes[3].Tax
    /\ db.default["personal"] = 10000

\* C27: from the seeded 60,000 on, the stored personal default allowance is
\* always within 10,000..100,000, and only an accepted UpdatePesonal request
\* changes it: a rejected or failed one leaves the stored value unchanged.
C27_PersonalStaysInRange ==
    /\ [](db.default["personal"] >= 10000 /\ db.default["personal"] <= 100000)
    /\ [][ /\ (req'.kind = "admin" /\ resp'.status # StatusOK) => db' = db
           /\ db' # db => /\ req'.kind = "admin" /\ resp'.status = StatusOK
                          /\ db' = [db EXCEPT !.default["personal"] = req'.Amount]
       ]_vars

C27_Witness ==
    /\ AnsweredAdmin /\ req.bind
    /\ req.Amount = 100000
    /\ resp.status = StatusInternalServerError
    /\ db.default["personal"] = 10000

\* C28: the allowance configuration is read from the database on every tax
\* request: a calculation after a completed UpdatePesonal is computed with
\* the personal deduction stored then.
C28_NoCache ==
    ((AnsweredTax \/ AnsweredCSV) /\ resp.status = StatusOK) =>
      /\ taxConf = TaxConfig(rates, db.allowed, db.default)
      /\ totalAllowance = calculateTotalAllowance(taxConf, allowances)
      /\ AnsweredTax =>
           resp = TaxResponse(TaxSummaryOf(req.TotalIncome, req.Wht, allowances,
                                           TaxConfig(rates, db.allowed, db.default)))

C28_Witness ==
    /\ AnsweredTax /\ resp.status = StatusOK
    /\ db.default["personal"] = 100000
    /\ taxConf.DefaultAllowances["personal"] = 100000
    /\ req.TotalIncome = 735000
    /\ resp.body.Tax # TaxSummaryOf(req.TotalIncome, req.Wht, allowances,
                                    TaxConfig(rates, SeedDB.allowed, SeedDB.default)).Tax

\* =================================================================
\* The tax handlers one statement at a time, admin updates in between
\* =================================================================
\* UPDATE allowed_allowances SET max_amount WHERE allowance_type RETURNING
UpdateAmountAllowedAllowances(d, allowanceType, amount, fail) ==
    IF fail \/ allowanceType \notin DOMAIN d.allowed
    THEN [err |-> TRUE, MaxAmount |-> 0, db |-> d]
    ELSE [err |-> FALSE, MaxAmount |-> amount,
          db |-> [d EXCEPT !.allowed = [@ EXCEPT ![allowanceType] = amount]]]

\* the amounts the tests of UpdateKReceipt post
KReceiptAmounts == {0, 70000, 100001}

KReceiptRequests ==
    {UnboundAdminRequest} \cup [kind : {"admin"}, bind : {TRUE}, Amount : KReceiptAmounts]

\* UpdateKReceipt as its tests pin it
updateKReceipt(r, d, fail) ==
    IF ~r.bind THEN [Rejected(StatusBadRequest, "Bad request") EXCEPT !.db = d]
    ELSE IF ~validAdminRequest(r)
    THEN [Rejected(StatusBadRequest, "Bad request") EXCEPT !.db = d]
    ELSE IF r.Amount > 100000
    THEN [Rejected(StatusBadRequest, "Invalid amount") EXCEPT !.db = d]
    ELSE LET u == UpdateAmountAllowedAllowances(d, "k-receipt", r.Amount, fail)
         IN  IF u.err
             THEN [resp |-> ResponseMsg(StatusInternalServerError,
                                        "Failed to update k-receipt amount"),
                   calls |-> <<"UpdateAmountAllowedAllowances">>,
                   tx |-> NoTx, db |-> u.db]
             ELSE [resp |-> [status |-> StatusOK, message |-> "",
                             body |-> [kReceipt |-> u.MaxAmount]],
                   calls |-> <<"UpdateAmountAllowedAllowances">>,
                   tx |-> NoTx, db |-> u.db]

\* the tax requests of the interleaved runs
StepTaxRequests ==
    [kind : {"tax"}, bind : {TRUE}, TotalIncome : {500000}, Wht : {0, 600000},
     Allowances : [nil : {FALSE},
                   items : {<<>>, <<[AllowanceType |-> "k-receipt", Amount |-> 200000]>>}]]

\* the CSV bodies of the interleaved runs
StepCsvRequests ==
    [kind : {"csv"}, contentType : {"text/csv"},
     records : {TestBatch, <<CsvHeader, <<"500000", "0", "0">>>>, <<CsvHeader>>}]

\* the engine variables take the fields of tx
SetEngine(tx) ==
    /\ income' = tx.income
    /\ wht' = tx.wht
    /\ allowances' = tx.allowances
    /\ taxConf' = tx.taxConf
    /\ summary' = tx.summary
    /\ totalAllowance' = tx.totalAllowance

\* no tax handler is between two of its statements
Free == proc.pc \in {"idle", "done"}

At(pc) == proc.pc = pc

\* the statements of a handler up to its first lookup: o is what the
\* handler does when every lookup succeeds, datasets the rows it collected
Begin(r, o, datasets) ==
    /\ Free
    /\ req' = r
    /\ calls' = <<>>
    /\ SetEngine(NoTx)
    /\ IF o.calls = <<>>
       THEN /\ resp' = o.resp
            /\ proc' = [NoProc EXCEPT !.pc = "done", !.adminResp = proc.adminResp]
       ELSE /\ resp' = NoResponse
            /\ proc' = [NoProc EXCEPT !.pc = "findDefault",
                                      !.datasets = datasets,
                                      !.adminResp = proc.adminResp]
    /\ UNCHANGED <<db, history>>

\* bind, validation and the wht check of CalculateTax
BeginTax ==
    \E r \in StepTaxRequests : Begin(r, calculateTax(r, db, FALSE, FALSE), <<>>)

\* the content type, the read of the body and the validation loop
BeginCSV ==
    \E r \in StepCsvRequests :
        Begin(r, calculateTaxWithCSV(r, db, FALSE, FALSE),
              validateRows(csvReadAll(r.records).rows, 1, <<>>).datasets)

Failed ==
    /\ resp' = ResponseMsg(StatusInternalServerError, "Internal server error")
    /\ proc' = [proc EXCEPT !.pc = "done"]

\* defaultAllowancesMap, err := t.getDefaultAllowancesMap(ctx)
FindDefault ==
    /\ At("findDefault")
    /\ calls' = Append(calls, "FindAllDefaultAllowances")
    /\ \E fail \in BOOLEAN :
          LET dm == getDefaultAllowancesMap(db, fail)
          IN  IF dm.err THEN Failed
              ELSE /\ proc' = [proc EXCEPT !.pc = "findAllowed", !.defaultMap = dm.map]
                   /\ UNCHANGED resp
    /\ UNCHANGED <<db, req, history>>
    /\ UNCHANGED evars

\* allowedAllowancesMap, err := t.getAllowedAllowancesMap(ctx)
FindAllowed ==
    /\ At("findAllowed")
    /\ calls' = Append(calls, "FindAllAllowedAllowances")
    /\ \E fail \in BOOLEAN :
          LET am == getAllowedAllowancesMap(db, fail)
          IN  IF am.err THEN Failed
              ELSE /\ proc' = [proc EXCEPT
                                 !.pc = IF req.kind = "tax" THEN "compute" ELSE "rows",
                                 !.allowedMap = am.map]
                   /\ UNCHANGED resp
    /\ UNCHANGED <<db, req, history>>
    /\ UNCHANGED evars

\* NewTax over the two maps, the setters, the summary and the response
ComputeTax ==
    /\ At("compute")
    /\ LET conf == TaxConfig(rates, proc.allowedMap, proc.defaultMap)
           tx == runTax(conf, req.TotalIncome, req.Wht,
                        addAllowances(EmptyAllowances, req.Allowances.items))
       IN  /\ SetEngine(tx)
           /\ resp' = TaxResponse(tx.summary)
    /\ proc' = [proc EXCEPT !.pc = "done"]
    /\ UNCHANGED <<db, req, calls, history>>

\* rowConf that reads the tables again for every row
rowConf_reread(p, d) == TaxConfig(rates, d.allowed, d.default)

\* the configuration of the engine built for a row: the maps read before
\* the loop
rowConf(p, d) == TaxConfig(rates, p.allowedMap, p.defaultMap)

\* one iteration of the loop over datasets
ComputeRow ==
    /\ At("rows")
    /\ LET i == Len(proc.taxes) + 1
           conf == rowConf(proc, db)
           tx == rowTax(conf, proc.datasets[i])
       IN  /\ SetEngine(tx)
           /\ proc' = [proc EXCEPT
                         !.taxes = Append(@, [TotalIncome |-> proc.datasets[i][1],
                                              Tax |-> tx.summary.Tax]),
                         !.confs = Append(@, conf),
                         !.pc = IF i = Len(proc.datasets) THEN "respond" ELSE "rows"]
    /\ UNCHANGED <<db, req, resp, calls, history>>

\* return c.JSON(http.StatusOK, &TaxCSVResponse{Taxes: taxes})
RespondCSV ==
    /\ At("respond")
    /\ resp' = [status |-> StatusOK, message |-> "", body |-> [taxes |-> proc.taxes]]
    /\ proc' = [proc EXCEPT !.pc = "done"]
    /\ UNCHANGED <<db, req, calls, history>>
    /\ UNCHANGED evars

\* an admin request served while a tax handler may be under way
AdminServed(o) ==
    /\ db' = o.db
    /\ history' = history \cup {o.db}
    /\ proc' = [proc EXCEPT !.adminResp = o.resp]
    /\ UNCHANGED <<req, resp, calls>>
    /\ UNCHANGED evars

AdminUpdatePesonal ==
    \E r \in AdminRequests, fail \in BOOLEAN : AdminServed(updatePesonal(r, db, fail))

AdminUpdateKReceipt ==
    \E r \in KReceiptRequests, fail \in BOOLEAN : AdminServed(updateKReceipt(r, db, fail))

NextInterleaved ==
    \/ BeginTax
    \/ FindDefault
    \/ FindAllowed
    \/ ComputeTax
    \/ BeginCSV
    \/ ComputeRow
    \/ RespondCSV
    \/ AdminUpdatePesonal
    \/ AdminUpdateKReceipt

SpecInterleaved == InitHandlers /\ [][NextInterleaved]_vars

\* C29: CalculateTaxWithCSV reads the default and the allowed allowances
\* once per request, after all rows are validated and before any row is
\* computed, so every row of a batch is computed with the same
\* configuration, also when an admin update takes effect in between.
C29_OneConfigurationPerBatch ==
    req.kind = "csv" =>
      LET conf == TaxConfig(rates, proc.allowedMap, proc.defaultMap)
      IN  /\ calls \in {<<>>, <<"FindAllDefaultAllowances">>, BothLookups}
          /\ calls # <<>> =>
               /\ CsvAccepted(req)
               /\ Len(proc.datasets) = Len(req.records) - 1
          /\ proc.taxes # <<>> => calls = BothLookups
          /\ \A i \in DOMAIN proc.confs : proc.confs[i] = conf
          /\ (At("done") /\ resp.status = StatusOK) =>
               /\ Len(resp.body.taxes) = Len(proc.datasets)
               /\ \A i \in DOMAIN resp.body.taxes :
                    resp.body.taxes[i].Tax =
                      TaxSummaryOf(proc.datasets[i][1], proc.datasets[i][2],
                                   "donation" :> proc.datasets[i][3], conf).Tax

C29_Witness ==
    /\ req.kind = "csv" /\ At("respond")
    /\ Len(proc.taxes) = 3
    /\ db.default # proc.defaultMap
    /\ \A i \in DOMAIN proc.confs :
          proc.confs[i] = TaxConfig(rates, proc.allowedMap, proc.defaultMap)
    /\ db.default # proc.defaultMap
    /\ db.allowed # proc.allowedMap
    /\ Cardinality(history) >= 3

\* C30: the default table and the allowed table one CalculateTax request
\* uses are together one state of the database that existed at some
\* instant, also when updates of the personal deduction and of the
\* k-receipt cap interleave with its two lookups.
C30_OneDatabaseState ==
    (req.kind = "tax" /\ At("done") /\ resp.status = StatusOK) =>
      \E d \in history :
         d.default = proc.defaultMap /\ d.allowed = proc.allowedMap

====
